---------------------------- MODULE Spec2Model ----------------------------
(***************************************************************************)
(* A model of the money2 crate: the process-wide cache of historical       *)
(* exchange rates (HistoricalExchangeRates::cached and its callers), the   *)
(* nearest-date lookup (get_ref_from), the conversion of Money between     *)
(* currencies (<Money as Exchange>::exchange_mut), the arithmetic of       *)
(* Money, Money::new, the parsing of Money from text and parse_csv.        *)
(*                                                                         *)
(* The specifications share the module's variables:                        *)
(*   Spec        the cache, accessed by concurrent tasks;                  *)
(*   SpecLive    the cache from its populated state, fairly scheduled;     *)
(*   SpecResolve get_ref_from applied to bounded histories and dates;      *)
(*   SpecMoney   exchange applied to bounded amounts and snapshots;        *)
(*   SpecArith   the operators and the checked operations of Money;        *)
(*   SpecNew     Money::new applied to bounded mantissas and scales;       *)
(*   SpecText    <Money as FromStr>::from_str applied to bounded texts;    *)
(*   SpecCsv     parse_csv applied to bounded CSV texts.                   *)
(***************************************************************************)
EXTENDS Integers, Sequences, FiniteSets, TLC

VARIABLES
    \* ---- the cache (historical_exchange_rates.rs:30-56, 216-220)
    today,        \* the wall clock's local calendar date (local_now)
    cellInit,     \* CELL (tokio OnceCell) holds a value
    history,      \* the map inside CELL's RwLock; also the input of get_ref_from
    initHolder,   \* the task holding the OnceCell's initialisation permit
    lastCheck,    \* LAST_CHECK: Unset until set, then a date
    readers,      \* tasks holding a read guard of the RwLock
    writer,       \* the task holding the write guard of the RwLock
    waitq,        \* the RwLock's FIFO queue of waiting acquirers
    pc,           \* each task's position in history()/cached()
    now,          \* each task's local `now` (line 43)
    result,       \* what each task's last call returned: "none", "ok", "err"
    \* ---- observation of the fetch collaborator (a counting test double)
    fetchCalls,   \* calls of from_ecb / request::get_unzipped so far
    initFetches,  \* of which made by the OnceCell initialiser
    initFails,    \* initialisations that returned Err
    refreshFails, \* refreshes that returned Err
    lcVer,        \* number of writes to LAST_CHECK by the refresh branch
    seenVer,      \* the LAST_CHECK version each task compared against
    winFetch,     \* per LAST_CHECK version: refresh fetches started and not failed
    \* ---- get_ref_from (historical_exchange_rates.rs:195-206)
    date,         \* the requested date, an Option: << >> or <<d>>
    found,        \* the result of get_ref_from
    rpc,          \* position of the lookup scenario
    \* ---- Money::exchange (money/exchange.rs:11-24)
    money,        \* the Money value
    orig,         \* the Money value before any exchange
    rates,        \* the ExchangeRates snapshot
    target,       \* the currency asked for
    mpc,          \* position of the exchange scenario
    \* ---- Money's arithmetic (money.rs:48-62, 197-211, money/add.rs ...)
    lhs,          \* self
    rhs,          \* the operand
    op,           \* the operation: "add", "sub", "mul", "div", "rem"
    res,          \* what the call yielded
    apc,          \* position of the arithmetic scenario
    \* ---- Money::new (money.rs:183-189)
    newArgs,      \* the arguments: amount, decimal_places, currency
    made,         \* what Money::new yielded
    npc,          \* position of the construction scenario
    \* ---- <Money as FromStr>::from_str (money/from_str.rs:10-36)
    text,         \* the text to decode
    parsed,       \* what from_str yielded
    tpc,          \* position of the decoding scenario
    \* ---- HistoricalExchangeRates::parse_csv (historical_exchange_rates.rs:271-304)
    csv,          \* the CSV: its lines, each the sequence of its cells
    series,       \* what parse_csv yielded
    cpc           \* position of the parsing scenario

vars == << today, cellInit, history, initHolder, lastCheck, readers, writer,
           waitq, pc, now, result, fetchCalls, initFetches, initFails,
           refreshFails, lcVer, seenVer, winFetch, date, found, rpc, money, orig,
           rates, target, mpc, lhs, rhs, op, res, apc, newArgs, made, npc,
           text, parsed, tpc, csv, series, cpc >>

cacheVars == << today, cellInit, history, initHolder, lastCheck, readers,
                writer, waitq, pc, now, result, fetchCalls, initFetches,
                initFails, refreshFails, lcVer, seenVer, winFetch >>

resolveVars == << date, found, rpc >>

moneyVars == << money, orig, rates, target, mpc >>

arithVars == << lhs, rhs, op, res, apc >>

newVars == << newArgs, made, npc >>

textVars == << text, parsed, tpc >>

csvVars == << csv, series, cpc >>

pureVars == << arithVars, newVars, textVars, csvVars >>

otherVars == << resolveVars, moneyVars, pureVars >>

None == "None"

\* Option<T>: None is the empty sequence, Some(x) the sequence of x.
NoneOpt == << >>
Some(x) == << x >>

\* No task: the value of initHolder and writer when nobody holds them.
NoProc == 0

\* LAST_CHECK before it is set (an unset OnceLock); dates are 0 and above.
Unset == -1

-----------------------------------------------------------------------------
(* Bounds of the model *)

NProcs == 2       \* concurrent tasks calling into the cache
MaxDay == 1       \* the clock's calendar dates are 0..MaxDay
MaxFetches == 3   \* calls of the fetch collaborator explored
MaxPlaces == 3    \* decimal places of the amounts explored
DivDigits == 28   \* fractional digits carried by a decimal quotient
MaxMant == 40     \* amounts have the mantissas -MaxMant..MaxMant and three more
MaxDate == 5      \* the keys of the histories given to get_ref_from are 0..MaxDate

Procs == 1..NProcs
Dates == 0..MaxDay


-----------------------------------------------------------------------------
(* Data: currencies, decimals, snapshots, histories *)

\* A part of the Currency enum, with the reference currency Eur.
Currencies == {"EUR", "USD", "JPY"}

\* rust_decimal's Decimal: an integer mantissa m and a scale e, value m / 10^e.
Dec(m, e) == [m |-> m, e |-> e]

\* The rates of lib.rs' SAMPLE_EXCHANGE_RATES_CSV for USD and JPY, with the
\* EUR -> 1 entry the parsers insert.
SampleRates ==
    [c \in {"EUR", "USD", "JPY"} |->
        CASE c = "EUR" -> Dec(1, 0)
          [] c = "USD" -> Dec(12187, 4)
          [] c = "JPY" -> Dec(13381, 2)]

\* A snapshot in which EUR and USD stand at par.
ParRates ==
    [c \in {"EUR", "USD", "JPY"} |->
        CASE c = "EUR" -> Dec(1, 0)
          [] c = "USD" -> Dec(100, 2)
          [] c = "JPY" -> Dec(3, 0)]

\* A snapshot with partial coverage: no JPY.
PartialRates ==
    [c \in {"EUR", "USD"} |->
        CASE c = "EUR" -> Dec(1, 0)
          [] c = "USD" -> Dec(12187, 4)]

\* A snapshot read from a feed row whose USD cell is "0": parse_csv and
\* ExchangeRates' parsers accept any cell that parses as a Decimal.
ZeroRates ==
    [c \in {"EUR", "USD", "JPY"} |->
        CASE c = "EUR" -> Dec(1, 0)
          [] c = "USD" -> Dec(0, 0)
          [] c = "JPY" -> Dec(13381, 2)]

Snapshots == {SampleRates, ParRates, PartialRates, ZeroRates}

\* HistoricalExchangeMap: BTreeMap<NaiveDate, ExchangeRates>, a function from
\* a finite set of dates to snapshots.
Histories ==
    UNION {[S -> {SampleRates, ParRates}] : S \in SUBSET (0..MaxDate)}

EmptyHistory == [d \in {} |-> SampleRates]

\* The greatest and the least element of a non-empty set of integers.
Max(S) == CHOOSE x \in S : \A y \in S : y <= x
Min(S) == CHOOSE x \in S : \A y \in S : x <= y

-----------------------------------------------------------------------------
(* Parsing of decimals and currencies from sequences of characters *)

Ok(v) == [tag |-> "ok", val |-> v]

DigitChars == {"0", "1", "2", "3", "4", "5", "6", "7", "8", "9"}

DigitValue(c) ==
    CASE c = "0" -> 0 [] c = "1" -> 1 [] c = "2" -> 2 [] c = "3" -> 3
      [] c = "4" -> 4 [] c = "5" -> 5 [] c = "6" -> 6 [] c = "7" -> 7
      [] c = "8" -> 8 [] c = "9" -> 9

\* The number written by digit characters, most significant first.
RECURSIVE NumberOf(_)
NumberOf(s) ==
    IF s = << >> THEN 0
    ELSE 10 * NumberOf(SubSeq(s, 1, Len(s) - 1)) + DigitValue(s[Len(s)])

\* literal.parse::<Decimal>(): an optional sign, then digits with at most
\* one point; the scale is the number of digits after the point. Anything
\* else, the empty literal included, is a rust_decimal::Error, which `?`
\* converts into Error::Decimal.
ParseDecimal(f) ==
    LET signed == f # << >> /\ f[1] \in {"-", "+"}
        body   == IF signed THEN Tail(f) ELSE f
        points == {i \in 1..Len(body) : body[i] = "."}
        digits == SelectSeq(body, LAMBDA c : c \in DigitChars)
        n      == NumberOf(digits)
    IN  IF /\ \A i \in 1..Len(body) : body[i] \in DigitChars \cup {"."}
           /\ Cardinality(points) <= 1
           /\ digits # << >>
        THEN Ok(Dec(IF signed /\ f[1] = "-" THEN -n ELSE n,
                    IF points = {} THEN 0
                    ELSE Len(body) - (CHOOSE i \in points : TRUE)))
        ELSE [tag |-> "err", kind |-> "Decimal"]

Upper(c) ==
    CASE c = "e" -> "E" [] c = "u" -> "U" [] c = "r" -> "R"
      [] c = "s" -> "S" [] c = "d" -> "D"
      [] OTHER -> c

\* currency.rs:137-145, Currency::reverse_lookup: a lookup that ignores case.
ReverseLookup(f) ==
    LET u == [i \in 1..Len(f) |-> Upper(f[i])]
    IN  CASE u = << "E", "U", "R" >> -> Some("EUR")
          [] u = << "U", "S", "D" >> -> Some("USD")
          [] u = << "J", "P", "Y" >> -> Some("JPY")
          [] OTHER -> NoneOpt

\* currency/from_str.rs: <Currency as FromStr>::from_str
ParseCurrency(f) ==
    LET c == ReverseLookup(f)
    IN  IF c = NoneOpt
        THEN [tag |-> "err", kind |-> "UnsupportedCurrency", arg |-> f]
        ELSE Ok(c[1])

-----------------------------------------------------------------------------
(* HistoricalExchangeRates::parse_csv. A CSV is the sequence of its lines   *)
(* (csv.lines()), a line the sequence of its cells (line.split(',')), which *)
(* has at least one cell, and a cell the sequence of its characters.        *)

Cell ==
    [ Date |-> << "D", "a", "t", "e" >>,
      USD |-> << "U", "S", "D" >>,
      usd |-> << "u", "s", "d" >>,
      JPY |-> << "J", "P", "Y" >>,
      EUR |-> << "E", "U", "R" >>,
      XXX |-> << "X", "X", "X" >>,
      NA |-> << "N", "/", "A" >>,
      Blank |-> << >>,
      Jan4 |-> << "1", "9", "9", "9", "-", "0", "1", "-", "0", "4" >>,
      Jan5 |-> << "1", "9", "9", "9", "-", "0", "1", "-", "0", "5" >>,
      r1_2187 |-> << "1", ".", "2", "1", "8", "7" >>,
      r133_81 |-> << "1", "3", "3", ".", "8", "1" >>,
      r1_00 |-> << "1", ".", "0", "0" >>,
      r3 |-> << "3" >>,
      r2 |-> << "2" >>,
      r0 |-> << "0" >>,
      neg2 |-> << "-", "2" >> ]

\* NaiveDate::default(), 1970-01-01: dates are counted from it, and the two
\* dates of the feed are the days 1 and 2.
DefaultDate == 0

\* d.parse::<NaiveDate>().ok()
ParseNaiveDate(cell) ==
    CASE cell = Cell.Jan4 -> Some(1)
      [] cell = Cell.Jan5 -> Some(2)
      [] OTHER -> NoneOpt

HeadersOf_DropsInvalid(line) ==
    SelectSeq([i \in 1..(Len(line) - 1) |-> ReverseLookup(line[i + 1])],
              LAMBDA h : h # NoneOpt)

\* Lines 274-277: the header cells after the first, each looked up as a
\* currency; None keeps the place of a column that is no currency.
HeadersOf(line) ==
    [i \in 1..(Len(line) - 1) |-> ReverseLookup(line[i + 1])]

\* Line 280: the date of a row, the default date if the first cell is none.
RowDate(line) ==
    LET d == ParseNaiveDate(line[1])
    IN  IF d = NoneOpt THEN DefaultDate ELSE d[1]

\* HashMap::insert and BTreeMap::insert: the value of an existing key is
\* replaced.
Insert(m, k, v) == [x \in DOMAIN m \cup {k} |-> IF x = k THEN v ELSE m[x]]

RECURSIVE FoldCells_StopsAtBadCell(_, _, _, _)
FoldCells_StopsAtBadCell(headers, line, i, acc) ==
    IF i > Len(headers) \/ i + 1 > Len(line) THEN acc
    ELSE LET d == ParseDecimal(line[i + 1])
         IN  IF d.tag # "ok" THEN acc
             ELSE FoldCells_StopsAtBadCell(headers, line, i + 1,
                       IF headers[i] # NoneOpt
                       THEN Insert(acc, headers[i][1], d.val)
                       ELSE acc)

\* Lines 282-296: headers.iter().zip(values).fold(..), from column i on: a
\* cell is inserted under its header's currency if the header is one and the
\* cell parses as a decimal; the zip ends with the shorter of the two.
RECURSIVE FoldCells(_, _, _, _)
FoldCells(headers, line, i, acc) ==
    IF i > Len(headers) \/ i + 1 > Len(line) THEN acc
    ELSE LET d == ParseDecimal(line[i + 1])
         IN  FoldCells(headers, line, i + 1,
                       IF headers[i] # NoneOpt /\ d.tag = "ok"
                       THEN Insert(acc, headers[i][1], d.val)
                       ELSE acc)

RowRates_KeepsEurColumn(headers, line) ==
    LET acc == FoldCells(headers, line, 1, << >>)
    IN  IF "EUR" \in DOMAIN acc THEN acc
        ELSE Insert(acc, "EUR", Dec(1, 0))

\* Lines 282-300: the snapshot of a row: the fold over its cells, then
\* EUR -> 1 is inserted.
RowRates(headers, line) ==
    Insert(FoldCells(headers, line, 1, << >>), "EUR", Dec(1, 0))

\* error.rs:64-72, Error::csv_row_missing("headers")
CsvRowMissing ==
    [tag |-> "err", kind |-> "Decode",
     context |-> "the exchange rates CSV from the ECB",
     reason |-> "there was no headers row"]

RECURSIVE FoldRows_Merges(_, _, _, _)
FoldRows_Merges(headers, lines, i, m) ==
    IF i > Len(lines) THEN m
    ELSE LET d   == RowDate(lines[i])
             new == RowRates(headers, lines[i])
             old == IF d \in DOMAIN m THEN m[d] ELSE new
         IN  FoldRows_Merges(headers, lines, i + 1,
                 Insert(m, d, [c \in DOMAIN old \cup DOMAIN new |->
                                  IF c \in DOMAIN new THEN new[c] ELSE old[c]]))

\* Lines 279-303: lines.fold(BTreeMap::new(), ..), from line i on: each
\* row's snapshot is inserted under the row's date.
RECURSIVE FoldRows(_, _, _, _)
FoldRows(headers, lines, i, m) ==
    IF i > Len(lines) THEN m
    ELSE FoldRows(headers, lines, i + 1,
                  Insert(m, RowDate(lines[i]), RowRates(headers, lines[i])))

ParseCsv_FailsOnBadHeader(lines) ==
    IF \/ lines = << >>
       \/ \A i \in 1..(Len(lines[1]) - 1) : HeadersOf(lines[1])[i] = NoneOpt
    THEN CsvRowMissing
    ELSE Ok(FoldRows(HeadersOf(lines[1]), lines, 2, << >>))

\* historical_exchange_rates.rs:271-304, parse_csv
ParseCsv(lines) ==
    IF lines = << >> THEN CsvRowMissing
    ELSE Ok(FoldRows(HeadersOf(lines[1]), lines, 2, << >>))

\* What request::get_unzipped can deliver: the feed's header alone, or with
\* the rows of two days.
FeedHeader == << Cell.Date, Cell.USD, Cell.JPY >>

FeedCsvs ==
    { << FeedHeader >>,
      << FeedHeader, << Cell.Jan4, Cell.r1_2187, Cell.r133_81 >>,
         << Cell.Jan5, Cell.r1_00, Cell.r3 >> >> }

\* What a successful from_ecb() can yield (lines 148-155): parse_csv of the
\* delivered text.
FeedSeries ==
    {ParseCsv(c).val : c \in {f \in FeedCsvs : ParseCsv(f).tag = "ok"}}

-----------------------------------------------------------------------------
(* tokio::sync::RwLock around the map: a fair lock, FIFO among waiters *)

Req(p, kind) == [p |-> p, kind |-> kind]

LockState(r, w, q) == [readers |-> r, writer |-> w, waitq |-> q]

CanGrantWrite_NoReaderCheck(r, w) == w = NoProc

\* A write guard is handed out only when nobody holds any guard.
CanGrantWrite(r, w) == r = {} /\ w = NoProc

\* A read guard is handed out when no write guard is held.
CanGrantRead(r, w) == w = NoProc

\* Hands the lock to the waiters at the head of the queue, in order, for as
\* long as the head can be served.
RECURSIVE Grant(_, _, _)
Grant(r, w, q) ==
    IF q = << >> THEN LockState(r, w, q)
    ELSE LET h == Head(q) IN
         IF h.kind = "write"
         THEN IF CanGrantWrite(r, w)
              THEN LockState(r, h.p, Tail(q))
              ELSE LockState(r, w, q)
         ELSE IF CanGrantRead(r, w)
              THEN Grant(r \cup {h.p}, w, Tail(q))
              ELSE LockState(r, w, q)

\* cached.read().await / cached.write().await: join the queue, be served
\* at once when the lock is free for this kind and nobody waits ahead.
Acquire(p, kind) ==
    LET s == Grant(readers, writer, Append(waitq, Req(p, kind))) IN
    /\ readers' = s.readers
    /\ writer' = s.writer
    /\ waitq' = s.waitq

Release_NoWake(p) ==
    /\ readers' = readers \ {p}
    /\ writer' = IF writer = p THEN NoProc ELSE writer
    /\ waitq' = waitq

\* Dropping a guard: the next waiters are served.
Release(p) ==
    LET s == Grant(readers \ {p}, IF writer = p THEN NoProc ELSE writer, waitq) IN
    /\ readers' = s.readers
    /\ writer' = s.writer
    /\ waitq' = s.waitq

-----------------------------------------------------------------------------
(* The cache: HistoricalExchangeRates::history over ::cached *)

InitCache ==
    /\ today \in Dates
    /\ cellInit = FALSE
    /\ history = EmptyHistory
    /\ initHolder = NoProc
    /\ lastCheck = Unset
    /\ readers = {}
    /\ writer = NoProc
    /\ waitq = << >>
    /\ pc = [p \in Procs |-> "idle"]
    /\ now = [p \in Procs |-> 0]
    /\ result = [p \in Procs |-> "none"]
    /\ fetchCalls = 0
    /\ initFetches = 0
    /\ initFails = 0
    /\ refreshFails = 0
    /\ lcVer = 0
    /\ seenVer = [p \in Procs |-> 0]
    /\ winFetch = [v \in 0..MaxFetches |-> 0]

\* Duration::days(1)
OneDay == 1

\* The refresh condition of lines 44-45:
\* LAST_CHECK.signed_duration_since(now) >= Duration::days(1), and
\* a.signed_duration_since(b) is a - b.
StaleCond(last, n) == last - n >= OneDay

CanInit_NoPermit(p) == ~cellInit

\* get_or_try_init runs the initialiser of a task that found the cell empty
\* and obtained the cell's single permit.
CanInit(p) == ~cellInit /\ initHolder = NoProc

\* A task calls history() (or get / try_exchange_opt, which start with it).
Call(p) ==
    /\ pc[p] = "idle"
    /\ pc' = [pc EXCEPT ![p] = "init"]
    /\ result' = [result EXCEPT ![p] = "none"]
    /\ UNCHANGED otherVars
    /\ UNCHANGED << today, cellInit, history, initHolder, lastCheck, readers,
                    writer, waitq, now, fetchCalls, initFetches, initFails,
                    refreshFails, lcVer, seenVer, winFetch >>

\* Lines 35-41, the cell already holds a value: get_or_try_init returns it.
InitSkip(p) ==
    /\ pc[p] = "init"
    /\ cellInit
    /\ pc' = [pc EXCEPT ![p] = "now"]
    /\ UNCHANGED otherVars
    /\ UNCHANGED << today, cellInit, history, initHolder, lastCheck, readers,
                    writer, waitq, now, result, fetchCalls, initFetches,
                    initFails, refreshFails, lcVer, seenVer, winFetch >>

\* Lines 35-37: the task takes the permit and its initialiser calls from_ecb.
InitAcquire(p) ==
    /\ pc[p] = "init"
    /\ CanInit(p)
    /\ fetchCalls < MaxFetches
    /\ initHolder' = p
    /\ fetchCalls' = fetchCalls + 1
    /\ initFetches' = initFetches + 1
    /\ pc' = [pc EXCEPT ![p] = "init_fetching"]
    /\ UNCHANGED otherVars
    /\ UNCHANGED << today, cellInit, history, lastCheck, readers, writer,
                    waitq, now, result, initFails, refreshFails, lcVer,
                    seenVer, winFetch >>

\* Lines 37-40: from_ecb returned Ok(map); LAST_CHECK is set if unset and
\* the cell is filled, which releases every waiting task.
InitFetchOk(p, map) ==
    /\ pc[p] = "init_fetching"
    /\ history' = map
    /\ cellInit' = TRUE
    /\ lastCheck' = IF lastCheck = Unset THEN today ELSE lastCheck
    /\ initHolder' = NoProc
    /\ pc' = [pc EXCEPT ![p] = "now"]
    /\ UNCHANGED otherVars
    /\ UNCHANGED << today, readers, writer, waitq, now, result, fetchCalls,
                    initFetches, initFails, refreshFails, lcVer, seenVer,
                    winFetch >>

InitFetchErr_KeepsPermit(p) ==
    /\ pc[p] = "init_fetching"
    /\ initFails' = initFails + 1
    /\ result' = [result EXCEPT ![p] = "err"]
    /\ pc' = [pc EXCEPT ![p] = "idle"]
    /\ UNCHANGED otherVars
    /\ UNCHANGED << today, cellInit, history, initHolder, lastCheck, readers,
                    writer, waitq, now, fetchCalls, initFetches, refreshFails,
                    lcVer, seenVer, winFetch >>

\* Line 37 and 41: from_ecb returned Err; `?` returns it from cached() and
\* from history(); the permit goes back to the cell.
InitFetchErr(p) ==
    /\ pc[p] = "init_fetching"
    /\ initHolder' = NoProc
    /\ initFails' = initFails + 1
    /\ result' = [result EXCEPT ![p] = "err"]
    /\ pc' = [pc EXCEPT ![p] = "idle"]
    /\ UNCHANGED otherVars
    /\ UNCHANGED << today, cellInit, history, lastCheck, readers, writer,
                    waitq, now, fetchCalls, initFetches, refreshFails, lcVer,
                    seenVer, winFetch >>

\* Line 43: let now = local_now();
ReadNow(p) ==
    /\ pc[p] = "now"
    /\ now' = [now EXCEPT ![p] = today]
    /\ pc' = [pc EXCEPT ![p] = "check"]
    /\ UNCHANGED otherVars
    /\ UNCHANGED << today, cellInit, history, initHolder, lastCheck, readers,
                    writer, waitq, result, fetchCalls, initFetches, initFails,
                    refreshFails, lcVer, seenVer, winFetch >>

\* Lines 44-46: LAST_CHECK is read (the read guard is a temporary of the
\* condition) and compared with now.
CheckStale(p) ==
    /\ pc[p] = "check"
    /\ IF StaleCond(lastCheck, now[p])
       THEN /\ pc' = [pc EXCEPT ![p] = "want_write"]
            /\ seenVer' = [seenVer EXCEPT ![p] = lcVer]
            /\ now' = now
       ELSE /\ pc' = [pc EXCEPT ![p] = "ret"]
            /\ seenVer' = seenVer
            /\ now' = [now EXCEPT ![p] = 0]
    /\ UNCHANGED otherVars
    /\ UNCHANGED << today, cellInit, history, initHolder, lastCheck, readers,
                    writer, waitq, result, fetchCalls, initFetches,
                    initFails, refreshFails, lcVer, winFetch >>

\* Line 47: cached.write().await is requested.
RequestWrite(p) ==
    /\ pc[p] = "want_write"
    /\ Acquire(p, "write")
    /\ pc' = [pc EXCEPT ![p] = "wait_write"]
    /\ UNCHANGED otherVars
    /\ UNCHANGED << today, cellInit, history, initHolder, lastCheck, now,
                    result, fetchCalls, initFetches, initFails, refreshFails,
                    lcVer, seenVer, winFetch >>

\* Lines 47-48: the write guard is held and from_ecb is called.
RefreshFetchStart(p) ==
    /\ pc[p] = "wait_write"
    /\ writer = p
    /\ fetchCalls < MaxFetches
    /\ fetchCalls' = fetchCalls + 1
    /\ winFetch' = [winFetch EXCEPT ![seenVer[p]] = @ + 1]
    /\ pc' = [pc EXCEPT ![p] = "refresh_fetching"]
    /\ UNCHANGED otherVars
    /\ UNCHANGED << today, cellInit, history, initHolder, lastCheck, readers,
                    writer, waitq, now, result, initFetches, initFails,
                    refreshFails, lcVer, seenVer >>

\* Lines 48-49: from_ecb returned Ok(map); *history = map; drop(history).
RefreshFetchOk(p, map) ==
    /\ pc[p] = "refresh_fetching"
    /\ history' = map
    /\ Release(p)
    /\ pc' = [pc EXCEPT ![p] = "set_last"]
    /\ UNCHANGED otherVars
    /\ UNCHANGED << today, cellInit, initHolder, lastCheck, now, result,
                    fetchCalls, initFetches, initFails, refreshFails, lcVer,
                    seenVer, winFetch >>

RefreshFetchErr_ClearsMap(p) ==
    /\ pc[p] = "refresh_fetching"
    /\ history' = EmptyHistory
    /\ Release(p)
    /\ refreshFails' = refreshFails + 1
    /\ winFetch' = [winFetch EXCEPT ![seenVer[p]] = @ - 1]
    /\ result' = [result EXCEPT ![p] = "err"]
    /\ now' = [now EXCEPT ![p] = 0]
    /\ seenVer' = [seenVer EXCEPT ![p] = 0]
    /\ pc' = [pc EXCEPT ![p] = "idle"]
    /\ UNCHANGED otherVars
    /\ UNCHANGED << today, cellInit, initHolder, lastCheck, fetchCalls,
                    initFetches, initFails, lcVer >>

\* Line 48: from_ecb returned Err; `?` returns it, which drops the write
\* guard without an assignment to the map or to LAST_CHECK.
RefreshFetchErr(p) ==
    /\ pc[p] = "refresh_fetching"
    /\ Release(p)
    /\ refreshFails' = refreshFails + 1
    /\ winFetch' = [winFetch EXCEPT ![seenVer[p]] = @ - 1]
    /\ result' = [result EXCEPT ![p] = "err"]
    /\ now' = [now EXCEPT ![p] = 0]
    /\ seenVer' = [seenVer EXCEPT ![p] = 0]
    /\ pc' = [pc EXCEPT ![p] = "idle"]
    /\ UNCHANGED otherVars
    /\ UNCHANGED << today, cellInit, history, initHolder, lastCheck,
                    fetchCalls, initFetches, initFails, lcVer >>

\* Lines 51-52: *last_check = now;
SetLastCheck(p) ==
    /\ pc[p] = "set_last"
    /\ lastCheck' = now[p]
    /\ lcVer' = lcVer + 1
    /\ now' = [now EXCEPT ![p] = 0]
    /\ seenVer' = [seenVer EXCEPT ![p] = 0]
    /\ pc' = [pc EXCEPT ![p] = "ret"]
    /\ UNCHANGED otherVars
    /\ UNCHANGED << today, cellInit, history, initHolder, readers, writer,
                    waitq, result, fetchCalls, initFetches, initFails,
                    refreshFails, winFetch >>

\* Lines 55 and 218-219: cached() returned Ok; cached.read().await is
\* requested.
RequestRead(p) ==
    /\ pc[p] = "ret"
    /\ Acquire(p, "read")
    /\ pc' = [pc EXCEPT ![p] = "wait_read"]
    /\ UNCHANGED otherVars
    /\ UNCHANGED << today, cellInit, history, initHolder, lastCheck, now,
                    result, fetchCalls, initFetches, initFails, refreshFails,
                    lcVer, seenVer, winFetch >>

\* Line 219: history() returns Ok(guard) to its caller.
GuardReturned(p) ==
    /\ pc[p] = "wait_read"
    /\ p \in readers
    /\ result' = [result EXCEPT ![p] = "ok"]
    /\ pc' = [pc EXCEPT ![p] = "holding"]
    /\ UNCHANGED otherVars
    /\ UNCHANGED << today, cellInit, history, initHolder, lastCheck, readers,
                    writer, waitq, now, fetchCalls, initFetches, initFails,
                    refreshFails, lcVer, seenVer, winFetch >>

\* The caller lets the RwLockReadGuard go out of scope.
DropGuard(p) ==
    /\ pc[p] = "holding"
    /\ Release(p)
    /\ pc' = [pc EXCEPT ![p] = "idle"]
    /\ UNCHANGED otherVars
    /\ UNCHANGED << today, cellInit, history, initHolder, lastCheck, now,
                    result, fetchCalls, initFetches, initFails, refreshFails,
                    lcVer, seenVer, winFetch >>

\* Lines 22-25, local_now: midnight passes.
Tick ==
    /\ today < MaxDay
    /\ today' = today + 1
    /\ UNCHANGED otherVars
    /\ UNCHANGED << cellInit, history, initHolder, lastCheck, readers, writer,
                    waitq, pc, now, result, fetchCalls, initFetches, initFails,
                    refreshFails, lcVer, seenVer, winFetch >>

\* Lines 22-25, local_now: Local::now() is the wall clock in the local time
\* zone, which an operator or a time-zone change can set back.
SetBack ==
    /\ today > 0
    /\ today' = today - 1
    /\ UNCHANGED otherVars
    /\ UNCHANGED << cellInit, history, initHolder, lastCheck, readers, writer,
                    waitq, pc, now, result, fetchCalls, initFetches, initFails,
                    refreshFails, lcVer, seenVer, winFetch >>

NextCache ==
    \/ \E p \in Procs : Call(p)
    \/ \E p \in Procs : InitSkip(p)
    \/ \E p \in Procs : InitAcquire(p)
    \/ \E p \in Procs : \E map \in FeedSeries : InitFetchOk(p, map)
    \/ \E p \in Procs : InitFetchErr(p)
    \/ \E p \in Procs : ReadNow(p)
    \/ \E p \in Procs : CheckStale(p)
    \/ \E p \in Procs : RequestWrite(p)
    \/ \E p \in Procs : RefreshFetchStart(p)
    \/ \E p \in Procs : \E map \in FeedSeries : RefreshFetchOk(p, map)
    \/ \E p \in Procs : RefreshFetchErr(p)
    \/ \E p \in Procs : SetLastCheck(p)
    \/ \E p \in Procs : RequestRead(p)
    \/ \E p \in Procs : GuardReturned(p)
    \/ \E p \in Procs : DropGuard(p)
    \/ Tick
    \/ SetBack

\* The variables of the other two specifications, at rest.
ResolveIdle == date = << >> /\ found = << >> /\ rpc = "off"
MoneyIdle ==
    /\ money = None /\ orig = None /\ rates = None /\ target = None
    /\ mpc = "off"

ArithIdle ==
    /\ lhs = None /\ rhs = None /\ op = None /\ res = None /\ apc = "off"
NewIdle == newArgs = None /\ made = None /\ npc = "off"
TextIdle == text = None /\ parsed = None /\ tpc = "off"
CsvIdle == csv = None /\ series = None /\ cpc = "off"

Init ==
    /\ InitCache /\ ResolveIdle /\ MoneyIdle
    /\ ArithIdle /\ NewIdle /\ TextIdle /\ CsvIdle

Next == NextCache

Spec == Init /\ [][Next]_vars

-----------------------------------------------------------------------------
(* Claims about the cache, checked under Spec *)

\* The current date n is at least one day later than the last-refresh date.
DateAdvanced(last, n) == n - last >= OneDay

InRefresh == {"want_write", "wait_write", "refresh_fetching", "set_last"}

\* C1: when a task compares the last-refresh date with the current date it
\* read, it enters the refresh (fetch, replace the series, set the
\* last-refresh date) if the current date is at least one day later, and it
\* makes no fetch if the two dates are equal.
C1_StalenessRefresh ==
    [][\A p \in Procs :
         (pc[p] = "check" /\ pc'[p] # "check") =>
            /\ DateAdvanced(lastCheck, now[p]) => pc'[p] = "want_write"
            /\ now[p] = lastCheck => pc'[p] = "ret"]_vars

\* C2: the initialiser's fetch is invoked once more than it has failed, at
\* most: once in total when it succeeds; at most one task is inside the
\* initialiser; every task past get_or_try_init finds the cell filled, and
\* the cell is filled by exactly one successful fetch.
C2_InitOnce ==
    /\ initFetches <= initFails + 1
    /\ Cardinality({p \in Procs : pc[p] = "init_fetching"}) <= 1
    /\ \A p \in Procs :
         pc[p] \notin {"idle", "init", "init_fetching"} => cellInit
    /\ cellInit => initFetches = initFails + 1 /\ history \in FeedSeries

\* Two tasks are at the empty cell at once: one fetches, the other waits.
C2_Witness ==
    \E p, q \in Procs :
        /\ p # q
        /\ pc[p] = "init_fetching"
        /\ pc[q] = "init"
        /\ initFetches = 1
        /\ initFails = 0

\* C3: for every staleness window (a value of the last-refresh date, as
\* compared by the tasks), at most one refresh fetch has been started and
\* has not failed.
C3_SingleRefreshPerWindow == \A v \in DOMAIN winFetch : winFetch[v] <= 1

\* C4: a step of a task inside a refresh attempt that does not complete the
\* replacement leaves the series and the last-refresh date as they were,
\* and the step that ends the attempt in failure returns the error to that
\* task, with the cell still filled and the write guard released.
C4_RefreshFailurePreserves ==
    [][\A p \in Procs :
         (/\ pc[p] \in {"want_write", "wait_write", "refresh_fetching"}
          /\ pc'[p] # pc[p]
          /\ pc'[p] # "set_last") =>
            /\ history' = history
            /\ lastCheck' = lastCheck
            /\ pc'[p] = "idle" =>
                 /\ result'[p] = "err"
                 /\ cellInit'
                 /\ writer' # p
                 /\ history' \in FeedSeries]_vars

\* A refresh has failed on a filled cell and its caller holds the error.
C4_Witness ==
    \E p \in Procs :
        /\ pc[p] = "idle"
        /\ result[p] = "err"
        /\ initFails = 0
        /\ refreshFails = 1
        /\ cellInit
        /\ writer = NoProc

\* Many readers or one writer, never both; what a reader sees is a whole
\* series.
RWExclusion ==
    /\ writer # NoProc => readers = {}
    /\ readers # {} => cellInit /\ history \in FeedSeries

\* C5: the lock is held by readers or by one writer, never both, and the
\* series changes only by a step taken while no reader holds a guard and
\* the changing task has exclusive access (the write guard, or the cell's
\* initialisation permit before the cell is filled); the new value is a whole
\* series.
C5_AtomicSwap ==
    /\ []RWExclusion
    /\ [][history' # history =>
            /\ readers = {}
            /\ IF cellInit THEN writer # NoProc ELSE initHolder # NoProc
            /\ history' \in FeedSeries]_vars

\* A task reads the series that another task's refresh has just put in place.
C5_Witness ==
    \E p, q \in Procs :
        /\ p \in readers
        /\ pc[p] = "holding"
        /\ pc[q] = "set_last"

-----------------------------------------------------------------------------
(* Nearest-date lookup: HistoricalExchangeRates::get_ref_from *)


\* date.map_or_else(local_now, |d| d.naive_local().date())
NaiveOf(d) == IF d = NoneOpt THEN today ELSE d[1]

RangeToInclusive_Exclusive(h, naive) == {k \in DOMAIN h : k < naive}

\* The keys of history.range(..=naive)
RangeToInclusive(h, naive) == {k \in DOMAIN h : k <= naive}

\* The keys of history.range(naive..)
RangeFrom(h, naive) == {k \in DOMAIN h : k >= naive}

\* Lines 200-205: the last entry at or before naive, or else the first entry
\* at or after it; the entry's rates.
GetRefFrom(h, d) ==
    LET naive == NaiveOf(d)
        back  == RangeToInclusive(h, naive)
        fwd   == RangeFrom(h, naive)
    IN  IF back # {} THEN Some(h[Max(back)])
        ELSE IF fwd # {} THEN Some(h[Min(fwd)])
        ELSE NoneOpt

ResolveInputs ==
    /\ history \in Histories
    /\ date \in {NoneOpt} \cup {Some(d) : d \in 0..MaxDate}
    /\ today \in Dates
    /\ found = NoneOpt
    /\ rpc = "start"

\* The variables of the cache that the lookup does not use, at rest.
CacheIdle ==
    /\ cellInit = FALSE /\ initHolder = NoProc /\ lastCheck = Unset
    /\ readers = {} /\ writer = NoProc /\ waitq = << >>
    /\ pc = [p \in Procs |-> "idle"]
    /\ now = [p \in Procs |-> 0]
    /\ result = [p \in Procs |-> "none"]
    /\ fetchCalls = 0 /\ initFetches = 0 /\ initFails = 0 /\ refreshFails = 0
    /\ lcVer = 0
    /\ seenVer = [p \in Procs |-> 0]
    /\ winFetch = [v \in 0..MaxFetches |-> 0]

\* get_ref_from(&history, date) is called.
Lookup ==
    /\ rpc = "start"
    /\ found' = GetRefFrom(history, date)
    /\ rpc' = "done"
    /\ UNCHANGED << cacheVars, date, moneyVars, pureVars >>

InitResolve ==
    /\ ResolveInputs /\ CacheIdle /\ MoneyIdle
    /\ ArithIdle /\ NewIdle /\ TextIdle /\ CsvIdle

NextResolve == Lookup

SpecResolve == InitResolve /\ [][NextResolve]_vars

\* C6: get_ref_from returns the snapshot keyed by the requested date if it
\* is a key; otherwise that of the greatest key strictly less than it, if
\* any; otherwise that of the smallest key strictly greater, if any; and
\* nothing only when the series is empty.
C6_NearestDate ==
    rpc = "done" =>
        LET d     == NaiveOf(date)
            K     == DOMAIN history
            below == {k \in K : k < d}
            above == {k \in K : k > d}
        IN  /\ d \in K => found = Some(history[d])
            /\ (d \notin K /\ below # {}) =>
                 \E k \in below :
                    /\ \A j \in below : j <= k
                    /\ found = Some(history[k])
            /\ (d \notin K /\ below = {} /\ above # {}) =>
                 \E k \in above :
                    /\ \A j \in above : k <= j
                    /\ found = Some(history[k])
            /\ found = NoneOpt <=> K = {}

\* Keys D1 < D2 < D3 with different snapshots at D1 and D2, a requested date
\* strictly between D1 and D2, resolved to the snapshot at D1.
C6_Witness ==
    /\ rpc = "done"
    /\ date # NoneOpt
    /\ \E d1, d2, d3 \in DOMAIN history :
        /\ DOMAIN history = {d1, d2, d3}
        /\ d1 < date[1] /\ date[1] < d2 /\ d2 < d3
        /\ history[d1] # history[d2]
        /\ found = Some(history[d1])

-----------------------------------------------------------------------------
(* Decimal arithmetic (rust_decimal) on digit sequences *)

\* A natural number of any size is the sequence of its decimal digits, least
\* significant first; a decimal of any size is
\* [neg |-> sign, digs |-> digits of the magnitude, e |-> scale].

Abs(n) == IF n < 0 THEN -n ELSE n

RECURSIVE Pow10(_)
Pow10(k) == IF k = 0 THEN 1 ELSE 10 * Pow10(k - 1)

RECURSIVE Digits(_)
Digits(n) == IF n = 0 THEN << >> ELSE << n % 10 >> \o Digits(n \div 10)

RECURSIVE ToInt(_)
ToInt(s) == IF s = << >> THEN 0 ELSE s[1] + 10 * ToInt(Tail(s))

Zeros(k) == [i \in 1..k |-> 0]

\* s * 10^k
ShiftLeft(s, k) == Zeros(k) \o s

Pad(s, n) == s \o Zeros(n - Len(s))

\* s * m + carry, for a small m
RECURSIVE BigMulSmall(_, _, _)
BigMulSmall(s, m, carry) ==
    IF s = << >> THEN Digits(carry)
    ELSE LET t == s[1] * m + carry
         IN  << t % 10 >> \o BigMulSmall(Tail(s), m, t \div 10)

\* a + b + carry, for digit sequences of equal length
RECURSIVE AddPadded(_, _, _)
AddPadded(a, b, carry) ==
    IF a = << >> THEN Digits(carry)
    ELSE LET t == a[1] + b[1] + carry
         IN  << t % 10 >> \o AddPadded(Tail(a), Tail(b), t \div 10)

BigAdd(a, b) ==
    LET n == IF Len(a) > Len(b) THEN Len(a) ELSE Len(b)
    IN  AddPadded(Pad(a, n), Pad(b, n), 0)

RECURSIVE LeqFrom(_, _, _)
LeqFrom(a, b, i) ==
    IF i = 0 THEN TRUE
    ELSE IF a[i] < b[i] THEN TRUE
    ELSE IF a[i] > b[i] THEN FALSE
    ELSE LeqFrom(a, b, i - 1)

\* a <= b
BigLeq(a, b) ==
    LET n == IF Len(a) > Len(b) THEN Len(a) ELSE Len(b)
    IN  LeqFrom(Pad(a, n), Pad(b, n), n)

BigDec(neg, digs, e) == [neg |-> neg, digs |-> digs, e |-> e]

\* The next n digits of r / den for a remainder r < den, least significant
\* first.
RECURSIVE FracDigits(_, _, _)
FracDigits(r, den, n) ==
    IF n = 0 THEN << >>
    ELSE FracDigits((r * 10) % den, den, n - 1) \o << (r * 10) \div den >>

\* The remainder left after those n digits.
RECURSIVE FracRem(_, _, _)
FracRem(r, den, n) ==
    IF n = 0 THEN r ELSE FracRem((r * 10) % den, den, n - 1)

\* d / c for a non-zero c, as rust_decimal's Div: the quotient is carried to
\* a fixed number of fractional digits and rounded to nearest, ties to even.
DivDec(d, c) ==
    LET num  == Abs(d.m) * Pow10(c.e)
        den  == Abs(c.m) * Pow10(d.e)
        ip   == num \div den
        r    == num % den
        q    == FracDigits(r, den, DivDigits) \o Digits(ip)
        rem  == FracRem(r, den, DivDigits)
        odd  == Len(q) > 0 /\ q[1] % 2 = 1
        up   == 2 * rem > den \/ (2 * rem = den /\ odd)
    IN  BigDec((d.m < 0) # (c.m < 0),
               IF up THEN BigAdd(q, << 1 >>) ELSE q,
               DivDigits)

\* amount * rate, as rust_decimal's Mul where the product fits the mantissa:
\* the mantissas are multiplied and the scales added.
MulDec(a, x) ==
    BigDec((a.m < 0) # x.neg, BigMulSmall(x.digs, Abs(a.m), 0), a.e + x.e)

Rescale_Truncates(x, scale) ==
    IF x.e > scale
    THEN LET k == x.e - scale
             m == ToInt(SubSeq(x.digs, k + 1, Len(x.digs)))
         IN  Dec(IF x.neg THEN -m ELSE m, scale)
    ELSE LET m == ToInt(ShiftLeft(x.digs, scale - x.e))
         IN  Dec(IF x.neg THEN -m ELSE m, scale)

\* Decimal::rescale(scale): towards a smaller scale the digits beyond it are
\* cut off one by one and the magnitude is incremented if the last digit cut
\* off is 5 or more; towards a larger scale zeros are appended.
Rescale(x, scale) ==
    IF x.e > scale
    THEN LET k    == x.e - scale
             kept == ToInt(SubSeq(x.digs, k + 1, Len(x.digs)))
             up   == Len(x.digs) >= k /\ x.digs[k] >= 5
             m    == IF up THEN kept + 1 ELSE kept
         IN  Dec(IF x.neg THEN -m ELSE m, scale)
    ELSE LET m == ToInt(ShiftLeft(x.digs, scale - x.e))
         IN  Dec(IF x.neg THEN -m ELSE m, scale)

-----------------------------------------------------------------------------
(* Conversion: ExchangeRates::get / index and <Money as Exchange> *)

Money(amount, currency) == [amount |-> amount, currency |-> currency]

\* The outcome of a call that can panic.
Returned(v) == [tag |-> "ok", val |-> v]
Panicked == [tag |-> "panic"]

Get_Inverted(rts, current, desired) ==
    IF current \in DOMAIN rts /\ desired \in DOMAIN rts
    THEN IF rts[desired].m = 0
         THEN Panicked
         ELSE Returned(Some(DivDec(rts[current], rts[desired])))
    ELSE Returned(NoneOpt)

\* exchange_rates.rs:155-158, ExchangeRates::get: d / c for the rates c of
\* `current` and d of `desired`, None if either is missing. Decimal's `/`
\* panics on a zero divisor.
Get(rts, current, desired) ==
    IF current \in DOMAIN rts /\ desired \in DOMAIN rts
    THEN IF rts[current].m = 0
         THEN Panicked
         ELSE Returned(Some(DivDec(rts[desired], rts[current])))
    ELSE Returned(NoneOpt)

Index_InventsRate(rts, current, desired) ==
    LET got == Get(rts, current, desired)
    IN  IF got.tag = "panic" THEN Panicked
        ELSE IF got.val = NoneOpt THEN Returned(BigDec(FALSE, << 1 >>, 0))
        ELSE Returned(got.val[1])

\* exchange_rates.rs:166-171, ExchangeRates::index: get, or panic on None.
Index(rts, current, desired) ==
    LET got == Get(rts, current, desired)
    IN  IF got.tag = "panic" \/ got.val = NoneOpt
        THEN Panicked
        ELSE Returned(got.val[1])

\* exchange.rs:20, the scale of exchanged.rescale(2)
ExchangeScale == 2

Exchanged_RescaleToUnits(amount, rate) == Rescale(MulDec(amount, rate), 0)

\* exchange.rs:19-20: self.amount * rate, then rescale(2).
Exchanged(amount, rate) == Rescale(MulDec(amount, rate), ExchangeScale)

ExchangeMut_NoGuard(mny, currency, rts) ==
    LET rate == Index(rts, mny.currency, currency)
    IN  IF rate.tag = "panic"
        THEN Panicked
        ELSE Returned(Money(Exchanged(mny.amount, rate.val), currency))

\* exchange.rs:11-24, exchange_mut; the value of *self afterwards.
ExchangeMut(mny, currency, rts) ==
    IF mny.currency = currency
    THEN Returned(mny)
    ELSE LET rate == Index(rts, mny.currency, currency)
         IN  IF rate.tag = "panic"
             THEN Panicked
             ELSE Returned(Money(Exchanged(mny.amount, rate.val), currency))

\* exchange.rs (trait Exchange):10-17, exchange: exchange_mut on the moved
\* value, which is returned.
Exchange(mny, currency, rts) == ExchangeMut(mny, currency, rts)

Mantissas == (-MaxMant..MaxMant) \cup {1000, 1005, 2000}

\* Money::new(mantissa, decimal_places, currency)
Amounts == {Dec(m, e) : m \in Mantissas, e \in 0..MaxPlaces}

MoneyInputs ==
    /\ orig \in {Money(a, c) : a \in Amounts, c \in Currencies}
    /\ money = orig
    /\ rates \in Snapshots
    /\ target \in Currencies
    /\ mpc = "start"

ResolveAtRest ==
    /\ history = EmptyHistory /\ today = 0
    /\ date = NoneOpt /\ found = NoneOpt /\ rpc = "off"

InitMoney ==
    /\ MoneyInputs /\ CacheIdle /\ ResolveAtRest
    /\ ArithIdle /\ NewIdle /\ TextIdle /\ CsvIdle

\* money.exchange(target, &rates)
DoExchange ==
    /\ mpc = "start"
    /\ LET out == Exchange(money, target, rates)
       IN  IF out.tag = "panic"
           THEN mpc' = "panicked" /\ money' = money
           ELSE mpc' = "exchanged" /\ money' = out.val
    /\ UNCHANGED << cacheVars, resolveVars, orig, rates, target, pureVars >>

\* The result is exchanged back into the currency the value came in.
DoExchangeBack ==
    /\ mpc = "exchanged"
    /\ LET out == Exchange(money, orig.currency, rates)
       IN  IF out.tag = "panic"
           THEN mpc' = "panicked" /\ money' = money
           ELSE mpc' = "back" /\ money' = out.val
    /\ UNCHANGED << cacheVars, resolveVars, orig, rates, target, pureVars >>

NextMoney == DoExchange \/ DoExchangeBack

SpecMoney == InitMoney /\ [][NextMoney]_vars

-----------------------------------------------------------------------------
(* Claims about the conversion, checked under SpecMoney *)

\* a <= b and a = b as numbers, for decimals of any scales (Decimal's Ord/Eq).
DecLeq(a, b) == a.m * Pow10(b.e) <= b.m * Pow10(a.e)
DecEq(a, b) == a.m * Pow10(b.e) = b.m * Pow10(a.e)

\* |rm| / 100 is within 1/200 of |a| * d / c, the product taken over the
\* rationals: with N / D = |a| * d / c,
\* 2 * |rm| * D <= 200 * N + D  and  200 * N <= 2 * |rm| * D + D.
WithinHalfUnit(rm, a, d, c) ==
    LET N    == ShiftLeft(BigMulSmall(Digits(Abs(a.m)), d.m, 0), c.e)
        D    == ShiftLeft(Digits(c.m), a.e + d.e)
        RD2  == BigMulSmall(BigMulSmall(D, Abs(rm), 0), 2, 0)
        N200 == BigMulSmall(N, 200, 0)
    IN  /\ BigLeq(RD2, BigAdd(N200, D))
        /\ BigLeq(N200, BigAdd(RD2, D))

TwentyUsd == Money(Dec(2000, 2), "USD")

\* C7: a value exchanged into another currency of the snapshot carries the
\* target currency and, at exactly 2 decimal places, an amount within half a
\* unit of the second place of amount * rate_of(target) / rate_of(source),
\* with the sign of the amount; an exchange fails only if a currency is
\* missing or the rate of the currency exchanged from is zero; 20.00 USD at
\* USD 1.2187, JPY 133.81 gives 2195.95 JPY.
C7_ConversionResult ==
    /\ (mpc = "exchanged" /\ orig.currency # target) =>
        /\ money.currency = target
        /\ money.amount.e = 2
        /\ WithinHalfUnit(money.amount.m, orig.amount,
                          rates[target], rates[orig.currency])
        /\ orig.amount.m >= 0 => money.amount.m >= 0
        /\ orig.amount.m <= 0 => money.amount.m <= 0
        /\ (orig = TwentyUsd /\ target = "JPY" /\ rates = SampleRates) =>
             money = Money(Dec(219595, 2), "JPY")
    /\ (mpc = "panicked" /\ money.currency = orig.currency) =>
        \/ orig.currency \notin DOMAIN rates
        \/ target \notin DOMAIN rates
        \/ rates[orig.currency].m = 0
    /\ (mpc = "panicked" /\ money.currency # orig.currency) =>
        rates[target].m = 0

\* 20.00 USD has been exchanged into 2195.95 JPY.
C7_Witness ==
    /\ mpc = "exchanged"
    /\ orig = TwentyUsd /\ target = "JPY" /\ rates = SampleRates
    /\ money = Money(Dec(219595, 2), "JPY")

\* The difference of two amounts, the second of scale 2, in units of 0.01.
DiffInCents(a, b) == Abs(a.m * Pow10(2 - a.e) - b.m)

\* C8 as claimed: for distinct currencies A and B of the snapshot and a value
\* in A with at most 2 decimal places, A -> B -> A gives currency A and an
\* amount at most 0.01 from the value's.
C8_RoundTripBound ==
    (mpc = "back" /\ orig.currency # target /\ orig.amount.e <= 2) =>
        /\ money.currency = orig.currency
        /\ DiffInCents(orig.amount, money.amount) <= 1

\* C8 as amended: the same, where rate_of(B) >= rate_of(A).
C8_RoundTripBoundUpward ==
    (/\ mpc = "back" /\ orig.currency # target /\ orig.amount.e <= 2
     /\ DecLeq(rates[orig.currency], rates[target])) =>
        /\ money.currency = orig.currency
        /\ money.amount.e = 2
        /\ DiffInCents(orig.amount, money.amount) <= 1

\* 20.00 USD went to JPY and back, at the sample rates.
C8_Witness ==
    /\ mpc = "back"
    /\ orig = TwentyUsd /\ target = "JPY" /\ rates = SampleRates
    /\ money = TwentyUsd

\* C9 as claimed: where the rates of distinct currencies A and B are equal
\* (the cross-rate is exactly 1 in both directions), A -> B -> A gives back
\* the amount of any value, whatever its scale.
C9_ExactAtUnitRate ==
    (/\ mpc = "back" /\ orig.currency # target
     /\ DecEq(rates[orig.currency], rates[target])) =>
        /\ money.currency = orig.currency
        /\ DecEq(money.amount, orig.amount)

\* C9 as amended: the same for values with at most 2 decimal places.
C9_ExactAtUnitRateTwoPlaces ==
    (/\ mpc = "back" /\ orig.currency # target /\ orig.amount.e <= 2
     /\ DecEq(rates[orig.currency], rates[target])) =>
        /\ money.currency = orig.currency
        /\ DecEq(money.amount, orig.amount)

\* 1.5 EUR went to USD and back at par and is 1.50 EUR.
C9_Witness ==
    /\ mpc = "back"
    /\ rates = ParRates /\ target = "USD"
    /\ orig = Money(Dec(15, 1), "EUR")
    /\ money = Money(Dec(150, 2), "EUR")

\* C10: exchanging a value into its own currency leaves the amount, with its
\* scale, and the currency as they were, for every snapshot.
C10_SameCurrencyNoOp ==
    orig.currency = target => (mpc # "panicked" /\ money = orig)

\* A JPY amount of 3 decimal places was exchanged into JPY with a snapshot
\* that has no JPY.
C10_Witness ==
    /\ mpc = "exchanged"
    /\ orig.currency = "JPY" /\ target = "JPY"
    /\ rates = PartialRates
    /\ orig.amount = Dec(1005, 3)
    /\ money = orig

\* Both currencies of the exchange are in the snapshot.
BothPresent == orig.currency \in DOMAIN rates /\ target \in DOMAIN rates

\* C11: an exchange into another currency with a snapshot that lacks the
\* source or the target currency fails (it panics), leaves the value's amount
\* and currency as they were, and the snapshot yields no rate for the pair.
C11_MissingCurrencyFails ==
    (mpc # "start" /\ orig.currency # target /\ ~BothPresent) =>
        /\ mpc = "panicked"
        /\ money = orig
        /\ Get(rates, orig.currency, target) = Returned(NoneOpt)

\* 5 USD were to be exchanged into JPY with a snapshot that has no JPY.
C11_Witness ==
    /\ mpc = "panicked"
    /\ rates = PartialRates
    /\ orig = Money(Dec(5, 0), "USD") /\ target = "JPY"
    /\ money = orig

\* C12 as claimed: with a rate of exactly zero for the source currency, the
\* cross-rate and the exchange do not panic.
C12_ZeroRateIsError ==
    (/\ mpc # "start" /\ orig.currency # target /\ BothPresent
     /\ rates[orig.currency].m = 0) =>
        /\ mpc # "panicked"
        /\ Get(rates, orig.currency, target).tag # "panic"

-----------------------------------------------------------------------------
(* Money's arithmetic: Money::unchecked, Money::checked and the operators *)

\* Bounds of the amounts given to the arithmetic.
MaxArith == 2

\* The largest mantissa of a Decimal, 2^96 - 1 (Decimal::MAX), as digits.
MaxMantissa ==
    << 5, 3, 3, 0, 5, 9, 3, 4, 5, 3, 9, 5, 7, 3, 3, 4, 6, 2, 4, 1, 5, 2, 6, 1,
       8, 2, 2, 9, 7 >>

DecimalMax == BigDec(FALSE, MaxMantissa, 0)
DecimalMin == BigDec(TRUE, MaxMantissa, 0)

\* A Decimal of a small mantissa, in the representation of any size.
Big(d) == BigDec(d.m < 0, Digits(Abs(d.m)), d.e)

\* The digits without leading zeros.
RECURSIVE Trim(_)
Trim(s) ==
    IF s = << >> THEN s
    ELSE IF s[Len(s)] = 0 THEN Trim(SubSeq(s, 1, Len(s) - 1))
    ELSE s

\* a - b - borrow for digit sequences of equal length, a >= b
RECURSIVE SubPadded(_, _, _)
SubPadded(a, b, borrow) ==
    IF a = << >> THEN << >>
    ELSE LET t == a[1] - b[1] - borrow
         IN  IF t < 0
             THEN << t + 10 >> \o SubPadded(Tail(a), Tail(b), 1)
             ELSE << t >> \o SubPadded(Tail(a), Tail(b), 0)

\* a - b, for a >= b
BigSub(a, b) ==
    LET n == IF Len(a) > Len(b) THEN Len(a) ELSE Len(b)
    IN  Trim(SubPadded(Pad(a, n), Pad(b, n), 0))

\* The Decimal of a sign and a magnitude, None where the magnitude does not
\* fit the 96 bits of the mantissa. Zero carries no sign.
Fit(neg, digs, e) ==
    LET t == Trim(digs)
    IN  IF BigLeq(t, MaxMantissa)
        THEN Some(BigDec(neg /\ t # << >>, t, e))
        ELSE NoneOpt

\* Decimal::checked_add, for operands whose mantissas brought to the larger
\* of the two scales fit the mantissa, or whose scales are both 0.
DecimalCheckedAdd(a, b) ==
    LET s == IF a.e > b.e THEN a.e ELSE b.e
        A == ShiftLeft(a.digs, s - a.e)
        B == ShiftLeft(b.digs, s - b.e)
    IN  IF a.neg = b.neg THEN Fit(a.neg, BigAdd(A, B), s)
        ELSE IF BigLeq(B, A) THEN Fit(a.neg, BigSub(A, B), s)
        ELSE Fit(b.neg, BigSub(B, A), s)

\* Decimal::checked_sub: the sum with the negated operand.
DecimalCheckedSub(a, b) ==
    DecimalCheckedAdd(a, BigDec(~b.neg, b.digs, b.e))

\* Decimal::checked_mul for an operand b of a small mantissa: the product of
\* the mantissas at the sum of the scales.
DecimalCheckedMul(a, b) ==
    Fit(a.neg # b.neg, BigMulSmall(a.digs, ToInt(b.digs), 0), a.e + b.e)

\* Decimal::checked_div for small mantissas: None for a zero divisor.
DecimalCheckedDiv(a, b) ==
    IF b.digs = << >> THEN NoneOpt
    ELSE LET q == DivDec(Dec(ToInt(a.digs), a.e), Dec(ToInt(b.digs), b.e))
         IN  Some(BigDec(a.neg # b.neg /\ Trim(q.digs) # << >>, Trim(q.digs),
                         q.e))

\* Decimal::checked_rem for small mantissas: None for a zero divisor, else
\* the remainder of the truncating division, with the dividend's sign.
DecimalCheckedRem(a, b) ==
    IF b.digs = << >> THEN NoneOpt
    ELSE LET s == IF a.e > b.e THEN a.e ELSE b.e
             A == ToInt(a.digs) * Pow10(s - a.e)
             B == ToInt(b.digs) * Pow10(s - b.e)
             r == A % B
         IN  Some(BigDec(a.neg /\ r # 0, Digits(r), s))

Ops == {"add", "sub", "mul", "div", "rem"}

\* The fn(Decimal, Decimal) -> Option<Decimal> handed to Money::checked.
DecimalChecked(o, a, b) ==
    CASE o = "add" -> DecimalCheckedAdd(a, b)
      [] o = "sub" -> DecimalCheckedSub(a, b)
      [] o = "mul" -> DecimalCheckedMul(a, b)
      [] o = "div" -> DecimalCheckedDiv(a, b)
      [] o = "rem" -> DecimalCheckedRem(a, b)

PanickedWith(why) == [tag |-> "panic", why |-> why]

\* The fn(Decimal, Decimal) -> Decimal handed to Money::unchecked: Decimal's
\* operators panic where the checked operation has no result.
DecimalOp(o, a, b) ==
    LET c == DecimalChecked(o, a, b)
    IN  IF c = NoneOpt THEN PanickedWith("decimal") ELSE Returned(c[1])

Unchecked_Coerces(mny, o, operand) ==
    LET r == DecimalOp(o, mny.amount, operand.amount)
    IN  IF r.tag = "panic" THEN r
        ELSE Returned(Money(r.val, mny.currency))

\* money.rs:197-211, Money::unchecked
Unchecked(mny, o, operand) ==
    IF mny.currency # operand.currency
    THEN PanickedWith("differing currencies")
    ELSE LET r == DecimalOp(o, mny.amount, operand.amount)
         IN  IF r.tag = "panic" THEN r
             ELSE Returned(Money(r.val, mny.currency))

Checked_Coerces(mny, o, operand) ==
    LET c == DecimalChecked(o, mny.amount, operand.amount)
    IN  IF c = NoneOpt THEN NoneOpt
        ELSE Some(Money(c[1], mny.currency))

\* money.rs:48-62, Money::checked
Checked(mny, o, operand) ==
    IF mny.currency # operand.currency
    THEN NoneOpt
    ELSE LET c == DecimalChecked(o, mny.amount, operand.amount)
         IN  IF c = NoneOpt THEN NoneOpt
             ELSE Some(Money(c[1], mny.currency))

ArithMantissas == (-MaxArith..MaxArith) \cup {3, 5, 2000}

ArithAmounts == {Big(Dec(m, e)) : m \in ArithMantissas, e \in 0..MaxPlaces}

\* Whole amounts, the operands met by Decimal::MAX and Decimal::MIN.
WholeAmounts == {Big(Dec(m, 0)) : m \in -MaxArith..MaxArith}

ArithOperands ==
    (ArithAmounts \X ArithAmounts \X Ops)
        \cup ({DecimalMax, DecimalMin} \X WholeAmounts \X {"add", "sub", "mul"})

ArithInputs ==
    /\ \E t \in ArithOperands :
        /\ op = t[3]
        /\ \E c \in Currencies, d \in {"EUR", "USD"} :
            /\ lhs = Money(t[1], c)
            /\ rhs = Money(t[2], d)
    /\ res = None
    /\ apc = "start"

InitArith ==
    /\ ArithInputs /\ CacheIdle /\ ResolveAtRest /\ MoneyIdle
    /\ NewIdle /\ TextIdle /\ CsvIdle

\* lhs + rhs, lhs - rhs, lhs * rhs, lhs / rhs, lhs % rhs
\* (money/add.rs, sub.rs, mul.rs, div.rs, rem.rs)
Operator ==
    /\ apc = "start"
    /\ res' = Unchecked(lhs, op, rhs)
    /\ apc' = "operator"
    /\ UNCHANGED << cacheVars, resolveVars, moneyVars, lhs, rhs, op, newVars,
                    textVars, csvVars >>

\* lhs += rhs, ... (money/add_assign.rs, ...): *self = self.add(rhs); a panic
\* leaves *self as it was.
OperatorAssign ==
    /\ apc = "start"
    /\ res' = Unchecked(lhs, op, rhs)
    /\ lhs' = IF res'.tag = "ok" THEN res'.val ELSE lhs
    /\ apc' = "assigned"
    /\ UNCHANGED << cacheVars, resolveVars, moneyVars, rhs, op, newVars,
                    textVars, csvVars >>

\* lhs.checked_add(rhs), ... (money.rs:64-167)
CheckedOperation ==
    /\ apc = "start"
    /\ res' = Checked(lhs, op, rhs)
    /\ apc' = "checked"
    /\ UNCHANGED << cacheVars, resolveVars, moneyVars, lhs, rhs, op, newVars,
                    textVars, csvVars >>

NextArith == Operator \/ OperatorAssign \/ CheckedOperation

SpecArith == InitArith /\ [][NextArith]_vars

-----------------------------------------------------------------------------
(* Claims about the arithmetic, checked under SpecArith *)

\* The mantissa of a decimal of a small magnitude, with its sign.
Signed(x) == IF x.neg THEN -ToInt(x.digs) ELSE ToInt(x.digs)

IsExtreme(x) == x \in {DecimalMax, DecimalMin}

\* The operation has no result in Decimal: a zero divisor, or a result
\* beyond Decimal::MAX or below Decimal::MIN.
NoDecimalResult(o, a, b) ==
    \/ o \in {"div", "rem"} /\ b.digs = << >>
    \/ IsExtreme(a) /\ o = "add" /\ b.digs # << >> /\ a.neg = b.neg
    \/ IsExtreme(a) /\ o = "sub" /\ b.digs # << >> /\ a.neg # b.neg
    \/ IsExtreme(a) /\ o = "mul" /\ ToInt(b.digs) >= 2

\* r is the result of the operation on a and b over the rationals (for the
\* quotient: to within one unit of r's last place).
IsResultOf(o, a, b, r) ==
    IF IsExtreme(a)
    THEN \/ o \in {"add", "sub"} /\ b.digs = << >> /\ r = a
         \/ o = "mul" /\ b.digs = << >> /\ r = Big(Dec(0, 0))
         \/ o = "mul" /\ b = Big(Dec(1, 0)) /\ r = a
         \/ o = "mul" /\ b = Big(Dec(-1, 0)) /\ r = BigDec(~a.neg, a.digs, 0)
         \/ /\ o = "add" /\ a.neg # b.neg /\ r.neg = a.neg /\ r.e = 0
            /\ BigAdd(r.digs, b.digs) = a.digs
         \/ /\ o = "sub" /\ a.neg = b.neg /\ r.neg = a.neg /\ r.e = 0
            /\ BigAdd(r.digs, b.digs) = a.digs
    ELSE LET s == IF a.e > b.e THEN a.e ELSE b.e
             A == Signed(a) * Pow10(s - a.e)
             B == Signed(b) * Pow10(s - b.e)
         IN  CASE o = "add" -> r.e = s /\ Signed(r) = A + B
               [] o = "sub" -> r.e = s /\ Signed(r) = A - B
               [] o = "mul" ->
                    r.e = a.e + b.e /\ Signed(r) = Signed(a) * Signed(b)
               [] o = "rem" ->
                    /\ r.e = s
                    /\ Abs(Signed(r)) < Abs(B)
                    /\ Abs(Signed(r)) <= Abs(A)
                    /\ (Abs(A) - Abs(Signed(r))) % Abs(B) = 0
                    /\ Signed(r) # 0 => r.neg = a.neg
               [] o = "div" ->
                    LET P == BigMulSmall(r.digs, ToInt(b.digs), 0)
                        T == ShiftLeft(a.digs, r.e + b.e - a.e)
                    IN  /\ BigLeq(P, BigAdd(T, b.digs))
                        /\ BigLeq(T, BigAdd(P, b.digs))
                        /\ r.digs # << >> => r.neg = (a.neg # b.neg)

\* What an operator of Money may yield for self l, operand r and operation o.
UncheckedOutcome(l, r, o, out) ==
    /\ l.currency # r.currency => out = PanickedWith("differing currencies")
    /\ (l.currency = r.currency /\ NoDecimalResult(o, l.amount, r.amount)) =>
            out = PanickedWith("decimal")
    /\ (l.currency = r.currency /\ ~NoDecimalResult(o, l.amount, r.amount)) =>
            /\ out.tag = "ok"
            /\ out.val.currency = l.currency
            /\ IsResultOf(o, l.amount, r.amount, out.val.amount)

\* C13: each of +, -, *, /, % on two Money values, and each of the assigning
\* forms, panics with the currency mismatch and yields no value if the
\* currencies differ; if they are equal the result carries that currency and
\* the amount of the decimal operation on the two amounts, whose own failure
\* is passed on; an assigning form stores the result in self and leaves self
\* as it was when it panics.
C13_UncheckedNeverCoerces ==
    /\ [](apc = "operator" => UncheckedOutcome(lhs, rhs, op, res))
    /\ [][apc' = "assigned" =>
            /\ UncheckedOutcome(lhs, rhs, op, res')
            /\ lhs' = IF res'.tag = "ok" THEN res'.val ELSE lhs]_vars

\* 20.00 USD + 1 EUR has panicked with the currency mismatch.
C13_Witness ==
    /\ apc = "operator" /\ op = "add"
    /\ lhs = Money(Big(Dec(2000, 2)), "USD")
    /\ rhs = Money(Big(Dec(1, 0)), "EUR")
    /\ res = PanickedWith("differing currencies")

\* C14: a checked operation yields None exactly when the currencies differ
\* or the decimal operation has no result (overflow, underflow, zero
\* divisor), the same None in each case; otherwise Some value of the common
\* currency with the operation's amount. It yields an Option in every case.
C14_CheckedNeverFails ==
    apc = "checked" =>
        LET absent == \/ lhs.currency # rhs.currency
                      \/ NoDecimalResult(op, lhs.amount, rhs.amount)
        IN  /\ absent => res = NoneOpt
            /\ ~absent =>
                /\ Len(res) = 1
                /\ res[1].currency = lhs.currency
                /\ res[1].currency = rhs.currency
                /\ IsResultOf(op, lhs.amount, rhs.amount, res[1].amount)

\* Decimal::MAX USD checked_add 1 USD is None, as is 20.00 USD checked_add
\* 1 EUR.
C14_Witness ==
    /\ apc = "checked" /\ op = "add"
    /\ lhs = Money(DecimalMax, "USD")
    /\ rhs = Money(Big(Dec(1, 0)), "USD")
    /\ res = NoneOpt
    /\ Checked(Money(Big(Dec(2000, 2)), "USD"), "add",
               Money(Big(Dec(1, 0)), "EUR")) = res

-----------------------------------------------------------------------------
(* Money::new *)

\* The largest scale of a Decimal (rust_decimal's MAX_PRECISION); money.rs:186
\* calls Decimal::new, which panics for a larger one.
MaxScale == 28

\* The decimal_places given to Money::new are 0..MaxNewPlaces.
MaxNewPlaces == 30

\* Decimal::new(num, scale)
DecimalNew(num, scale) ==
    IF scale > MaxScale THEN PanickedWith("scale") ELSE Returned(Dec(num, scale))

\* money.rs:183-189, Money::new
MoneyNew(amount, decimal_places, currency) ==
    LET d == DecimalNew(amount, decimal_places)
    IN  IF d.tag = "panic" THEN d ELSE Returned(Money(d.val, currency))

NewInputs ==
    /\ newArgs \in [amount : Mantissas, decimal_places : 0..MaxNewPlaces,
                    currency : Currencies]
    /\ made = None
    /\ npc = "start"

InitNew ==
    /\ NewInputs /\ CacheIdle /\ ResolveAtRest /\ MoneyIdle
    /\ ArithIdle /\ TextIdle /\ CsvIdle

\* Money::new(amount, decimal_places, currency)
New ==
    /\ npc = "start"
    /\ made' = MoneyNew(newArgs.amount, newArgs.decimal_places,
                        newArgs.currency)
    /\ npc' = "done"
    /\ UNCHANGED << cacheVars, resolveVars, moneyVars, arithVars, newArgs,
                    textVars, csvVars >>

NextNew == New

SpecNew == InitNew /\ [][NextNew]_vars

\* C15 as claimed: Money::new returns, for every mantissa, decimal-places
\* count and currency, the value of that currency whose amount has that
\* mantissa at that scale.
C15_NewIsTotal ==
    npc = "done" =>
        /\ made.tag = "ok"
        /\ made.val.currency = newArgs.currency
        /\ made.val.amount.m = newArgs.amount
        /\ made.val.amount.e = newArgs.decimal_places

-----------------------------------------------------------------------------
(* <Money as FromStr>::from_str: a text is the sequence of its characters *)

\* Texts are made of at most MaxFields fields joined by single spaces.
MaxFields == 3

Space == " "

Fields ==
    { << >>,
      << "2", "0", ".", "0", "0" >>,
      << "5" >>,
      << "U", "S", "D" >>,
      << "e", "u", "r" >>,
      << "T", "M", "T" >> }

RECURSIVE Join(_)
Join(fs) ==
    IF Len(fs) = 1 THEN fs[1] ELSE fs[1] \o << Space >> \o Join(Tail(fs))

Texts == {Join(fs) : fs \in UNION {[1..n -> Fields] : n \in 1..MaxFields}}

\* s.split(' '): the pieces between the spaces; a text without a space is
\* its only piece, the empty text included.
RECURSIVE Split(_)
Split(s) ==
    IF \A i \in 1..Len(s) : s[i] # Space THEN << s >>
    ELSE LET i == CHOOSE j \in 1..Len(s) :
                    s[j] = Space /\ \A k \in 1..(j - 1) : s[k] # Space
         IN  << SubSeq(s, 1, i - 1) >> \o Split(SubSeq(s, i + 1, Len(s)))

Quote == "\""

IntoMoney == << " ", "i", "n", "t", "o", " ", "m", "o", "n", "e", "y" >>

ThereWasNo ==
    << "t", "h", "e", "r", "e", " ", "w", "a", "s", " ", "n", "o", " " >>

AmountField == << "a", "m", "o", "u", "n", "t" >>

CurrencyField == << "c", "u", "r", "r", "e", "n", "c", "y" >>

\* from_str.rs:12-17, new_error
NewError(s, field) ==
    [tag |-> "err", kind |-> "Decode",
     context |-> << Quote >> \o s \o << Quote >> \o IntoMoney,
     reason |-> ThereWasNo \o field]

\* money/from_str.rs:10-36, <Money as FromStr>::from_str
FromStr(s) ==
    LET split == Split(s)
    IN  IF Len(split) < 1 THEN NewError(s, AmountField)
        ELSE LET amount == ParseDecimal(split[1])
             IN  IF amount.tag = "err" THEN amount
                 ELSE IF Len(split) < 2 THEN NewError(s, CurrencyField)
                 ELSE LET currency == ParseCurrency(split[2])
                      IN  IF currency.tag = "err" THEN currency
                          ELSE Ok(Money(amount.val, currency.val))

TextInputs ==
    /\ text \in Texts
    /\ parsed = None
    /\ tpc = "start"

InitText ==
    /\ TextInputs /\ CacheIdle /\ ResolveAtRest /\ MoneyIdle
    /\ ArithIdle /\ NewIdle /\ CsvIdle

\* text.parse::<Money>()
Parse ==
    /\ tpc = "start"
    /\ parsed' = FromStr(text)
    /\ tpc' = "done"
    /\ UNCHANGED << cacheVars, resolveVars, moneyVars, arithVars, newVars,
                    text, csvVars >>

NextText == Parse

SpecText == InitText /\ [][NextText]_vars

\* needle occurs in hay
Contains(hay, needle) ==
    \E i \in 1..(Len(hay) - Len(needle) + 1) :
        SubSeq(hay, i, i + Len(needle) - 1) = needle

\* The amount literals and currency codes of the texts, with their values.
AmountLiterals ==
    { << << "2", "0", ".", "0", "0" >>, Dec(2000, 2) >>,
      << << "5" >>, Dec(5, 0) >> }

CurrencyLiterals ==
    { << << "U", "S", "D" >>, "USD" >>, << << "e", "u", "r" >>, "EUR" >> }

\* The outcome is a Decode error that names the field and holds the text.
DecodeErrorNaming(out, field, s) ==
    /\ out.tag = "err"
    /\ out.kind = "Decode"
    /\ Contains(out.reason, field)
    /\ Contains(out.context, s)

\* C16 as claimed: decoding '<amount> <currency-code>' yields the Money of
\* that amount and currency; a text without its amount field (the empty
\* text, a text starting with the space) and a text without its currency
\* field (an amount alone) are rejected with a Decode error whose reason
\* names the field and whose context contains the text.
C16_DecodeNamesMissingField ==
    tpc = "done" =>
        /\ \A a \in AmountLiterals, c \in CurrencyLiterals :
             text = a[1] \o << Space >> \o c[1] =>
                parsed = Ok(Money(a[2], c[2]))
        /\ \A a \in AmountLiterals :
             text = a[1] => DecodeErrorNaming(parsed, CurrencyField, text)
        /\ (text = << >> \/ Head(text) = Space) =>
             DecodeErrorNaming(parsed, AmountField, text)

-----------------------------------------------------------------------------
(* Further claims about the cache, checked under Spec and SpecLive *)

\* C17 as claimed: whenever the cell is filled, the series it holds has at
\* least one entry.
C17_NeverEmptyOncePopulated == cellInit => DOMAIN history # {}

\* A task that has asked for the write guard has to wait for it.
Blocked(p) == pc[p] = "wait_write" /\ writer # p

\* The fetches explored are used up: no further fetch is taken.
FetchesUsedUp == fetchCalls = MaxFetches

\* The guards are released in the end, a task that is handed a guard runs
\* on, and a fetch returns.
Fairness ==
    \A p \in Procs :
        /\ WF_vars(GuardReturned(p))
        /\ WF_vars(DropGuard(p))
        /\ WF_vars(RefreshFetchStart(p))
        /\ WF_vars(RefreshFetchErr(p) \/ \E map \in FeedSeries : RefreshFetchOk(p, map))

\* The cache as failed initialisations and then a successful one have left
\* it, on any day since, with one of the fetches explored still to be made:
\* the states in which guards are handed out and a refresh is made.
Populated ==
    /\ today \in Dates
    /\ cellInit = TRUE
    /\ history \in FeedSeries
    /\ initHolder = NoProc
    /\ lastCheck \in Dates
    /\ readers = {}
    /\ writer = NoProc
    /\ waitq = << >>
    /\ pc = [p \in Procs |-> "idle"]
    /\ now = [p \in Procs |-> 0]
    /\ result = [p \in Procs |-> "none"]
    /\ fetchCalls = MaxFetches - 1
    /\ initFetches = MaxFetches - 1
    /\ initFails = MaxFetches - 2
    /\ refreshFails = 0
    /\ lcVer = 0
    /\ seenVer = [p \in Procs |-> 0]
    /\ winFetch = [v \in 0..MaxFetches |-> 0]

InitLive ==
    /\ Populated /\ ResolveIdle /\ MoneyIdle
    /\ ArithIdle /\ NewIdle /\ TextIdle /\ CsvIdle

\* The steps of the tasks on a filled cell.
NextLive ==
    \/ \E p \in Procs : Call(p)
    \/ \E p \in Procs : InitSkip(p)
    \/ \E p \in Procs : ReadNow(p)
    \/ \E p \in Procs : CheckStale(p)
    \/ \E p \in Procs : RequestWrite(p)
    \/ \E p \in Procs : RefreshFetchStart(p)
    \/ \E p \in Procs : \E map \in FeedSeries : RefreshFetchOk(p, map)
    \/ \E p \in Procs : RefreshFetchErr(p)
    \/ \E p \in Procs : SetLastCheck(p)
    \/ \E p \in Procs : RequestRead(p)
    \/ \E p \in Procs : GuardReturned(p)
    \/ \E p \in Procs : DropGuard(p)
    \/ Tick
    \/ SetBack

SpecLive == InitLive /\ [][NextLive]_vars /\ Fairness

\* C18: while a read guard is outstanding no step changes the series, and no
\* task starts the fetch of a refresh; a task is blocked at the write guard
\* only while a guard is outstanding; and a blocked task obtains the write
\* guard once the guards are released and the fetches return.
C18_GuardBlocksRefresh ==
    /\ [][readers # {} =>
            /\ history' = history
            /\ \A p \in Procs :
                 pc'[p] = "refresh_fetching" => pc[p] = "refresh_fetching"]_vars
    /\ [](\A p \in Procs : Blocked(p) => (readers # {} \/ writer # NoProc))
    /\ \A p \in Procs : Blocked(p) ~> (writer = p \/ FetchesUsedUp)

\* A task holds a read guard and another is blocked at the write guard.
C18_Witness ==
    \E p, q \in Procs :
        /\ pc[p] = "holding" /\ p \in readers
        /\ Blocked(q)
        /\ Head(waitq) = Req(q, "write")
        /\ ~FetchesUsedUp

\* C19: the step in which the initialiser's fetch fails returns the error
\* to its task and leaves the cell empty, without a series and without a
\* last-refresh date, and the permit free for the next task; the step in
\* which an initialiser's fetch succeeds, after failures or not, fills the
\* cell with the fetched series and sets the last-refresh date.
C19_FailedInitDoesNotPoison ==
    /\ [](~cellInit => (history = EmptyHistory /\ lastCheck = Unset))
    /\ [][\A p \in Procs :
            (pc[p] = "init_fetching" /\ pc'[p] # "init_fetching") =>
                IF pc'[p] = "idle"
                THEN /\ result'[p] = "err"
                     /\ ~cellInit'
                     /\ initHolder' = NoProc
                     /\ initFails' = initFails + 1
                ELSE /\ pc'[p] = "now"
                     /\ cellInit'
                     /\ history' \in FeedSeries
                     /\ lastCheck' = today]_vars

\* An initialisation failed, a later one succeeded, and a task holds a guard
\* on the series.
C19_Witness ==
    \E p \in Procs :
        /\ initFails >= 1
        /\ initFetches = initFails + 1
        /\ cellInit
        /\ pc[p] = "holding" /\ result[p] = "ok"

-----------------------------------------------------------------------------
(* parse_csv applied to bounded CSVs *)

\* The CSVs given to parse_csv have a header and at most MaxRows rows.
MaxRows == 2

CsvHeaders ==
    { << Cell.Date, Cell.USD, Cell.JPY >>,
      << Cell.Date, Cell.EUR, Cell.usd >>,
      << Cell.Date, Cell.XXX, Cell.USD >>,
      << Cell.Date, Cell.USD, Cell.usd >>,
      << Cell.Date, Cell.XXX, Cell.NA, Cell.USD >>,
      << Cell.Blank >> }

CsvRows ==
    { << Cell.Jan4, Cell.r1_2187, Cell.r133_81 >>,
      << Cell.Jan5, Cell.r2, Cell.r3 >>,
      << Cell.Jan5, Cell.NA, Cell.Blank >>,
      << Cell.Jan5, Cell.Blank, Cell.r3 >>,
      << Cell.Jan5, Cell.r0, Cell.neg2 >>,
      << Cell.Blank, Cell.Blank, Cell.Blank >>,
      << Cell.Blank >>,
      << Cell.XXX, Cell.r2, Cell.r3 >>,
      << Cell.Jan4, Cell.r2 >>,
      << Cell.Jan4, Cell.r3, Cell.r2, Cell.r1_00 >> }

Csvs ==
    {<< >>} \cup
    {<< h >> \o rows : h \in CsvHeaders,
                       rows \in UNION {[1..n -> CsvRows] : n \in 0..MaxRows}}

CsvInputs ==
    /\ csv \in Csvs
    /\ series = None
    /\ cpc = "start"

InitCsv ==
    /\ CsvInputs /\ CacheIdle /\ ResolveAtRest /\ MoneyIdle
    /\ ArithIdle /\ NewIdle /\ TextIdle

\* HistoricalExchangeRates::parse_csv(csv)
ParseCsvCall ==
    /\ cpc = "start"
    /\ series' = ParseCsv(csv)
    /\ cpc' = "done"
    /\ UNCHANGED << cacheVars, resolveVars, moneyVars, arithVars, newVars,
                    textVars, csv >>

NextCsv == ParseCsvCall

SpecCsv == InitCsv /\ [][NextCsv]_vars

\* C20: parse_csv fails only for a CSV without a header line; every data
\* row's date (the default date, if its date cell is none) is a key of the
\* result, and every snapshot of the result holds EUR at exactly 1, whatever
\* the row's cells and whatever the header's columns are.
C20_ReferenceCurrencyIsOne ==
    cpc = "done" =>
        IF csv = << >> THEN series.tag = "err"
        ELSE /\ series.tag = "ok"
             /\ \A i \in 2..Len(csv) : RowDate(csv[i]) \in DOMAIN series.val
             /\ \A d \in DOMAIN series.val :
                  /\ "EUR" \in DOMAIN series.val[d]
                  /\ series.val[d]["EUR"] = Dec(1, 0)

\* A CSV whose header has an EUR column, with a row that puts 3 in that
\* column and a row of blank cells, has been parsed.
C20_Witness ==
    /\ cpc = "done"
    /\ csv = << << Cell.Date, Cell.EUR, Cell.usd >>,
                << Cell.Jan4, Cell.r3, Cell.r2, Cell.r1_00 >>,
                << Cell.Blank, Cell.Blank, Cell.Blank >> >>
    /\ series.tag = "ok"
    /\ DOMAIN series.val = {DefaultDate, 1}
    /\ series.val[1] = [c \in {"EUR", "USD"} |-> IF c = "EUR" THEN Dec(1, 0) ELSE Dec(2, 0)]
    /\ series.val[DefaultDate] = [c \in {"EUR"} |-> Dec(1, 0)]

-----------------------------------------------------------------------------
(* Claims about the rows and the cells of parse_csv *)

\* The data rows of the CSV given to parse_csv (line numbers of csv).
DataRows == 2..Len(csv)

\* The currency named by the header above cell j of a line, if any: the
\* header cell at the same position of the first line.
ColumnCurrency(j) ==
    IF j <= Len(csv[1]) THEN ReverseLookup(csv[1][j]) ELSE NoneOpt

\* Cell j of the data row i parses as a decimal.
CellParses(i, j) == ParseDecimal(csv[i][j]).tag = "ok"

CellValue(i, j) == ParseDecimal(csv[i][j]).val

\* The data row i is the last one of its date, so that the series returned
\* shows its snapshot.
IsLastOfDate(i) ==
    \A k \in DataRows : k > i => RowDate(csv[k]) # RowDate(csv[i])

SnapshotOf(i) == series.val[RowDate(csv[i])]

Parsed == cpc = "done" /\ csv # << >> /\ series.tag = "ok"

\* C21 (as stated): parse_csv does not fail on a cell that is no decimal,
\* and every cell that parses under a header naming a currency is in the
\* row's snapshot, under that currency, with its parsed rate.
C21_EveryParsedCellKept ==
    (cpc = "done" /\ csv # << >>) =>
        /\ series.tag = "ok"
        /\ \A i \in DataRows : IsLastOfDate(i) =>
             \A j \in 2..Len(csv[i]) :
                (ColumnCurrency(j) # NoneOpt /\ CellParses(i, j)) =>
                    /\ ColumnCurrency(j)[1] \in DOMAIN SnapshotOf(i)
                    /\ SnapshotOf(i)[ColumnCurrency(j)[1]] = CellValue(i, j)

\* C21 (amended): parse_csv does not fail on a cell that is no decimal, and
\* a cell that parses under a header naming a currency other than EUR is in
\* the row's snapshot with its parsed rate, unless a later cell of the row
\* parses under a header naming the same currency.
C21_CellTolerance ==
    (cpc = "done" /\ csv # << >>) =>
        /\ series.tag = "ok"
        /\ \A i \in DataRows : IsLastOfDate(i) =>
             \A j \in 2..Len(csv[i]) :
                ( /\ ColumnCurrency(j) # NoneOpt
                  /\ ColumnCurrency(j) # Some("EUR")
                  /\ CellParses(i, j)
                  /\ \A k \in (j + 1)..Len(csv[i]) :
                        ~(ColumnCurrency(k) = ColumnCurrency(j) /\ CellParses(i, k)) ) =>
                    /\ ColumnCurrency(j)[1] \in DOMAIN SnapshotOf(i)
                    /\ SnapshotOf(i)[ColumnCurrency(j)[1]] = CellValue(i, j)

\* A row whose USD cell is blank and whose JPY cell is "3" has been parsed:
\* its snapshot has JPY at 3 and no USD.
C21_Witness ==
    /\ Parsed
    /\ csv = << << Cell.Date, Cell.USD, Cell.JPY >>,
                << Cell.Jan5, Cell.Blank, Cell.r3 >> >>
    /\ series.val[2] = [c \in {"EUR", "JPY"} |->
                           IF c = "EUR" THEN Dec(1, 0) ELSE Dec(3, 0)]

\* C22: column alignment. Every rate of a row's snapshot other than the
\* EUR -> 1 entry is the parsed cell of a column whose own header, at the
\* same position of the header line, names that currency; so a cell under a
\* header that is no currency never populates the snapshot and no cell is
\* attributed to the currency of another column. And the cell of the only
\* column naming a currency other than EUR is that currency's rate, however
\* many headers that are no currency precede it.
C22_ColumnAlignment ==
    Parsed =>
        \A i \in DataRows : IsLastOfDate(i) =>
            /\ \A c \in DOMAIN SnapshotOf(i) \ {"EUR"} :
                 \E j \in 2..Len(csv[i]) :
                    /\ ColumnCurrency(j) = Some(c)
                    /\ CellParses(i, j)
                    /\ SnapshotOf(i)[c] = CellValue(i, j)
            /\ \A j \in 2..Len(csv[i]) :
                 ( /\ ColumnCurrency(j) \notin {NoneOpt, Some("EUR")}
                   /\ CellParses(i, j)
                   /\ \A k \in 2..Len(csv[1]) :
                        k # j => ColumnCurrency(k) # ColumnCurrency(j) ) =>
                    /\ ColumnCurrency(j)[1] \in DOMAIN SnapshotOf(i)
                    /\ SnapshotOf(i)[ColumnCurrency(j)[1]] = CellValue(i, j)

\* A row with "3" and "2" under two headers that are no currency and "1.00"
\* under USD has been parsed: USD is 1.00 and nothing else came from the row.
C22_Witness ==
    /\ Parsed
    /\ csv = << << Cell.Date, Cell.XXX, Cell.NA, Cell.USD >>,
                << Cell.Jan4, Cell.r3, Cell.r2, Cell.r1_00 >> >>
    /\ series.val[1] = [c \in {"EUR", "USD"} |->
                           IF c = "EUR" THEN Dec(1, 0) ELSE Dec(100, 2)]

\* C23: parse_csv returns the Decode error of a missing row, its reason
\* naming the headers, exactly when the CSV has no first line; a CSV with a
\* first line gives Ok whatever its header and its rows hold.
C23_FailsOnlyWithoutHeader ==
    cpc = "done" =>
        /\ csv = << >> =>
             /\ series = CsvRowMissing
             /\ series.kind = "Decode"
             /\ series.reason = "there was no headers row"
        /\ csv # << >> => series.tag = "ok"

\* The text without any line has been given to parse_csv, which returned
\* the error of the missing headers row.
C23_Witness ==
    /\ cpc = "done"
    /\ csv = << >>
    /\ series.tag = "err" /\ series.reason = "there was no headers row"

\* The date cell of the data row i parses as a calendar date.
DateParses(i) == ParseNaiveDate(csv[i][1]) # NoneOpt

\* C24: a data row whose date cell is no calendar date is kept under the
\* default date, and the series has as many entries as the CSV has data
\* rows whenever the dates that parse are pairwise distinct.
C24_RowCountPreserved ==
    Parsed =>
        /\ \A i \in DataRows : ~DateParses(i) => DefaultDate \in DOMAIN series.val
        /\ (\A i, k \in DataRows :
                (i # k /\ DateParses(i) /\ DateParses(k)) =>
                    ParseNaiveDate(csv[i][1]) # ParseNaiveDate(csv[k][1]))
            => Cardinality(DOMAIN series.val) = Len(csv) - 1

\* The last data row that carries the date d.
LastRowOf(d) == Max({i \in DataRows : RowDate(csv[i]) = d})

\* C25: the series' keys are the dates of the data rows, one key per date,
\* and the snapshot held for a date is exactly the snapshot of the last row
\* of that date in input order: no currency and no rate of an earlier row
\* of the date remains.
C25_LastWriteWins ==
    Parsed =>
        /\ DOMAIN series.val = {RowDate(csv[i]) : i \in DataRows}
        /\ \A d \in DOMAIN series.val :
             series.val[d] = RowRates(HeadersOf(csv[1]), csv[LastRowOf(d)])

\* Two rows dated 1999-01-04 have been parsed, the first with a USD and a
\* JPY cell, the second with a USD cell only: the date holds the second
\* row's USD and no JPY.
C25_Witness ==
    /\ Parsed
    /\ csv = << << Cell.Date, Cell.USD, Cell.JPY >>,
                << Cell.Jan4, Cell.r1_2187, Cell.r133_81 >>,
                << Cell.Jan4, Cell.r2 >> >>
    /\ DOMAIN series.val = {1}
    /\ series.val[1] = [c \in {"EUR", "USD"} |->
                           IF c = "EUR" THEN Dec(1, 0) ELSE Dec(2, 0)]

\* C26: every rate of every snapshot returned by parse_csv is a strictly
\* positive decimal.
C26_RatesArePositive ==
    Parsed =>
        \A d \in DOMAIN series.val :
            \A c \in DOMAIN series.val[d] : series.val[d][c].m > 0

=============================================================================
